---------------------------- MODULE Spec2Model ----------------------------
(***************************************************************************)
(* Model of vllm/entrypoints/openai/tools.py: the tool-prompt injector     *)
(* (ToolsCallsTemplate.renderToolsList, OpenAIToolsPrompter.inject_prompt) *)
(* and the call capture (ChatPromptCapture) with its record converters.    *)
(*                                                                         *)
(* Text is a sequence of one-character strings.  json.loads and json.dumps *)
(* are modelled as a parser and a printer over that text; a decoded JSON   *)
(* value is a tagged record [t |-> type, v |-> payload].                   *)
(***************************************************************************)
EXTENDS Integers, Sequences, FiniteSets, TLC

VARIABLES
    call_token_str,       \* OpenAIToolsPrompter.call_token_str
    content,              \* ChatPromptCapture.content (the buffer)
    maybe_function_call,  \* ChatPromptCapture.maybe_function_call
    is_function_call,     \* ChatPromptCapture.is_function_call
    prefix_size,          \* ChatPromptCapture.prefix_size
    calls_list,           \* ChatPromptCapture.calls_list
    fed,                  \* number of chunks fed since construction / reset
    out,                  \* the last operation, its arguments and its result
    text,                 \* streaming: the whole generated text
    pos,                  \* streaming: characters of text already fed
    visible,              \* streaming: concatenation of feed's results
    request,              \* the ChatCompletionRequest handed to inject_prompt
    inject_out,           \* outcome of the last inject_prompt
    prompter,             \* outcome of OpenAIToolsPrompter.__init__
    capture2,             \* the fields of a second ChatPromptCapture
    server                \* api_server: the serving globals and the last handler

captureVars == <<content, maybe_function_call, is_function_call, prefix_size, calls_list>>
feedVars == <<text, pos, visible>>
injectVars == <<request, inject_out>>
otherVars == <<prompter, capture2, server>>
vars == <<call_token_str, content, maybe_function_call, is_function_call,
          prefix_size, calls_list, fed, out, text, pos, visible,
          request, inject_out, prompter, capture2, server>>

---------------------------------------------------------------------------
(* Bounds of the model.                                                    *)

MaxFeeds == 2
MaxCalls == 2
MaxFragments == 3

---------------------------------------------------------------------------
(* Characters and text.                                                    *)

DQ == "\""
Whitespace == {" "}
DigitChars == <<"0", "1", "2", "3", "4", "5", "6", "7", "8", "9">>
Digit == {DigitChars[k] : k \in 1..10}
DigitValue(c) == (CHOOSE k \in 1..10 : DigitChars[k] = c) - 1

HasAt(s, i, lit) ==
    /\ i >= 1
    /\ i + Len(lit) - 1 <= Len(s)
    /\ SubSeq(s, i, i + Len(lit) - 1) = lit

\* Python's "needle in haystack" for two strings: substring test.
IsSubstring(needle, s) ==
    \E i \in 1..(Len(s) + 1) : HasAt(s, i, needle)

\* Python's str(int).
RECURSIVE NatStr(_)
NatStr(n) ==
    IF n < 10 THEN <<DigitChars[n + 1]>>
    ELSE NatStr(n \div 10) \o <<DigitChars[(n % 10) + 1]>>

str(n) == IF n < 0 THEN <<"-">> \o NatStr(0 - n) ELSE NatStr(n)

\* Python's str.split(sep) for a non-empty separator: cut at every
\* non-overlapping occurrence, scanning left to right.
RECURSIVE split_from(_, _, _, _)
split_from(s, sep, start, i) ==
    IF i + Len(sep) - 1 > Len(s) THEN <<SubSeq(s, start, Len(s))>>
    ELSE IF SubSeq(s, i, i + Len(sep) - 1) = sep
         THEN <<SubSeq(s, start, i - 1)>>
                  \o split_from(s, sep, i + Len(sep), i + Len(sep))
         ELSE split_from(s, sep, start, i + 1)

split(s, sep) == split_from(s, sep, 1, 1)

\* Python's str.split(None): the maximal runs of characters that are not
\* whitespace; cur is the run being read.
RECURSIVE split_whitespace_from(_, _, _)
split_whitespace_from(s, i, cur) ==
    LET run == IF Len(cur) = 0 THEN <<>> ELSE <<cur>> IN
    IF i > Len(s) THEN run
    ELSE IF s[i] \in Whitespace
         THEN run \o split_whitespace_from(s, i + 1, <<>>)
         ELSE split_whitespace_from(s, i + 1, Append(cur, s[i]))

split_whitespace(s) == split_whitespace_from(s, 1, <<>>)

---------------------------------------------------------------------------
(* JSON values.                                                            *)

JNull == [t |-> "null", v |-> 0]
JBool(b) == [t |-> "bool", v |-> b]
JInt(n) == [t |-> "int", v |-> n]
JStr(s) == [t |-> "str", v |-> s]
JList(xs) == [t |-> "list", v |-> xs]
\* A dict is the sequence of its items <<key, value>> in insertion order.
JDict(items) == [t |-> "dict", v |-> items]

KeyIndex(items, key) ==
    IF \E k \in 1..Len(items) : items[k][1] = key
    THEN CHOOSE k \in 1..Len(items) : items[k][1] = key
    ELSE 0

\* dict[key] = value: a repeated key keeps its place and takes the new value.
DictSet(items, key, value) ==
    IF KeyIndex(items, key) = 0 THEN Append(items, <<key, value>>)
    ELSE [items EXCEPT ![KeyIndex(items, key)] = <<key, value>>]

DictHas(d, key) == KeyIndex(d.v, key) # 0
DictGet(d, key) == d.v[KeyIndex(d.v, key)][2]

---------------------------------------------------------------------------
(* json.loads: the decoder of the standard library, on text without        *)
(* escapes, signs, fractions or exponents.  A result is [ok |-> FALSE]     *)
(* (JSONDecodeError) or [ok |-> TRUE, v |-> value, p |-> next index].      *)

Fail == [ok |-> FALSE]
Ok(value, p) == [ok |-> TRUE, v |-> value, p |-> p]

RECURSIVE SkipWS(_, _)
SkipWS(s, i) ==
    IF i <= Len(s) /\ s[i] \in Whitespace THEN SkipWS(s, i + 1) ELSE i

RECURSIVE FindQuote(_, _)
FindQuote(s, i) ==
    IF i > Len(s) THEN 0
    ELSE IF s[i] = DQ THEN i
    ELSE FindQuote(s, i + 1)

\* i is the index after the opening quote.
scanstring(s, i) ==
    LET j == FindQuote(s, i) IN
    IF j = 0 THEN Fail ELSE Ok(SubSeq(s, i, j - 1), j + 1)

RECURSIVE ScanDigits(_, _)
ScanDigits(s, i) ==
    IF i <= Len(s) /\ s[i] \in Digit THEN ScanDigits(s, i + 1) ELSE i

RECURSIVE DigitsValue(_, _, _)
DigitsValue(s, i, j) ==
    IF j < i THEN 0 ELSE 10 * DigitsValue(s, i, j - 1) + DigitValue(s[j])

\* NUMBER_RE at i, where s[i] is a digit: 0 | [1-9][0-9]*
scannumber(s, i) ==
    LET e == IF s[i] = "0" THEN i + 1 ELSE ScanDigits(s, i) IN
    Ok(JInt(DigitsValue(s, i, e - 1)), e)

LitNull == <<"n", "u", "l", "l">>
LitTrue == <<"t", "r", "u", "e">>
LitFalse == <<"f", "a", "l", "s", "e">>

RECURSIVE scan_once(_, _), JSONObjectItems(_, _, _), JSONArrayItems(_, _, _)

\* i is the index of the opening quote of a key.
JSONObjectItems(s, i, items) ==
    LET key == scanstring(s, i + 1) IN
    IF ~key.ok THEN Fail ELSE
    LET c == SkipWS(s, key.p) IN
    IF c > Len(s) \/ s[c] # ":" THEN Fail ELSE
    LET value == scan_once(s, SkipWS(s, c + 1)) IN
    IF ~value.ok THEN Fail ELSE
    LET d == SkipWS(s, value.p)
        items2 == DictSet(items, key.v, value.v)
    IN  IF d > Len(s) THEN Fail
        ELSE IF s[d] = "}" THEN Ok(JDict(items2), d + 1)
        ELSE IF s[d] # "," THEN Fail
        ELSE LET e == SkipWS(s, d + 1) IN
             IF e > Len(s) \/ s[e] # DQ THEN Fail
             ELSE JSONObjectItems(s, e, items2)

\* i is the index after "{".
JSONObject(s, i) ==
    LET b == SkipWS(s, i) IN
    IF b > Len(s) THEN Fail
    ELSE IF s[b] = "}" THEN Ok(JDict(<<>>), b + 1)
    ELSE IF s[b] # DQ THEN Fail
    ELSE JSONObjectItems(s, b, <<>>)

\* i is the index of the first character of an element.
JSONArrayItems(s, i, xs) ==
    LET value == scan_once(s, i) IN
    IF ~value.ok THEN Fail ELSE
    LET d == SkipWS(s, value.p)
        xs2 == Append(xs, value.v)
    IN  IF d > Len(s) THEN Fail
        ELSE IF s[d] = "]" THEN Ok(JList(xs2), d + 1)
        ELSE IF s[d] # "," THEN Fail
        ELSE JSONArrayItems(s, SkipWS(s, d + 1), xs2)

\* i is the index after "[".
JSONArray(s, i) ==
    LET b == SkipWS(s, i) IN
    IF b > Len(s) THEN Fail
    ELSE IF s[b] = "]" THEN Ok(JList(<<>>), b + 1)
    ELSE JSONArrayItems(s, b, <<>>)

scan_once(s, idx) ==
    IF idx > Len(s) THEN Fail
    ELSE LET nextchar == s[idx] IN
         CASE nextchar = DQ ->
                  LET r == scanstring(s, idx + 1) IN
                  IF r.ok THEN Ok(JStr(r.v), r.p) ELSE Fail
           [] nextchar = "{" -> JSONObject(s, idx + 1)
           [] nextchar = "[" -> JSONArray(s, idx + 1)
           [] nextchar = "n" /\ HasAt(s, idx, LitNull) -> Ok(JNull, idx + 4)
           [] nextchar = "t" /\ HasAt(s, idx, LitTrue) -> Ok(JBool(TRUE), idx + 4)
           [] nextchar = "f" /\ HasAt(s, idx, LitFalse) -> Ok(JBool(FALSE), idx + 5)
           [] nextchar \in Digit -> scannumber(s, idx)
           [] OTHER -> Fail

\* json.loads(s): one value between optional whitespace, nothing after it.
json_loads(s) ==
    LET r == scan_once(s, SkipWS(s, 1)) IN
    IF ~r.ok THEN Fail
    ELSE IF SkipWS(s, r.p) # Len(s) + 1 THEN Fail
    ELSE r

---------------------------------------------------------------------------
(* json.dumps with the default separators ", " and ": ".                   *)

RECURSIVE json_dumps(_), dumps_list(_, _), dumps_items(_, _)

dumps_list(xs, k) ==
    IF k > Len(xs) THEN <<>>
    ELSE (IF k > 1 THEN <<",", " ">> ELSE <<>>)
             \o json_dumps(xs[k]) \o dumps_list(xs, k + 1)

dumps_items(items, k) ==
    IF k > Len(items) THEN <<>>
    ELSE (IF k > 1 THEN <<",", " ">> ELSE <<>>)
             \o <<DQ>> \o items[k][1] \o <<DQ, ":", " ">>
             \o json_dumps(items[k][2]) \o dumps_items(items, k + 1)

json_dumps(x) ==
    CASE x.t = "null" -> LitNull
      [] x.t = "bool" -> (IF x.v THEN LitTrue ELSE LitFalse)
      [] x.t = "int" -> str(x.v)
      [] x.t = "str" -> <<DQ>> \o x.v \o <<DQ>>
      [] x.t = "list" -> <<"[">> \o dumps_list(x.v, 1) \o <<"]">>
      [] x.t = "dict" -> <<"{">> \o dumps_items(x.v, 1) \o <<"}">>

\* Python's `key in x` for a str key: "yes", "no", or "TypeError" when x is
\* not a container.
RECURSIVE ListHas(_, _, _)
ListHas(xs, key, k) ==
    IF k > Len(xs) THEN FALSE
    ELSE IF xs[k].t = "str" /\ xs[k].v = key THEN TRUE
    ELSE ListHas(xs, key, k + 1)

py_in(key, x) ==
    CASE x.t = "dict" -> (IF DictHas(x, key) THEN "yes" ELSE "no")
      [] x.t = "list" -> (IF ListHas(x.v, key, 1) THEN "yes" ELSE "no")
      [] x.t = "str" -> (IF IsSubstring(key, x.v) THEN "yes" ELSE "no")
      [] OTHER -> "TypeError"

---------------------------------------------------------------------------
(* The prompter's call token and the texts a model may generate.           *)

None == JNull
IsNone(x) == x.t = "null"

\* The string the template renders for CALL_TOKEN.
FuncCallToken == <<"!", "!", ">">>

Quoted(s) == <<DQ>> \o s \o <<DQ>>
KeyCall == <<"c", "a", "l", "l">>
KeyArguments == <<"a", "r", "g", "u", "m", "e", "n", "t", "s">>

\* {"call":"a"}
PayloadA ==
    <<"{">> \o Quoted(KeyCall) \o <<":">> \o Quoted(<<"a">>) \o <<"}">>
\* {"call":"a_1","arguments":null}
PayloadNullArgs ==
    <<"{">> \o Quoted(KeyCall) \o <<":">> \o Quoted(<<"a", "_", "1">>) \o <<",">>
        \o Quoted(KeyArguments) \o <<":">> \o LitNull \o <<"}">>
\* {"call":"a","arguments":{"k":[1]}}
PayloadArgs ==
    <<"{">> \o Quoted(KeyCall) \o <<":">> \o Quoted(<<"a">>) \o <<",">>
        \o Quoted(KeyArguments) \o <<":">>
        \o <<"{">> \o Quoted(<<"k">>) \o <<":", "[", "1", "]", "}", "}">>
\* 5
PayloadNumber == <<"5">>
\* {not
PayloadNotJson == <<"{", "n", "o", "t">>
\* "call"
PayloadString == Quoted(KeyCall)

Payloads ==
    {PayloadA, PayloadNullArgs, PayloadArgs, PayloadNumber, PayloadNotJson,
     PayloadString}

\* The chunks of generated text the capture is fed: a call token followed by
\* a payload, or the first character of the token alone.
Chunks == {FuncCallToken \o p : p \in Payloads} \cup {<<"!">>}

---------------------------------------------------------------------------
(* ChatPromptCapture: the feed step of the capture state machine.          *)
(* st is [content, maybe_function_call, is_function_call, prefix_size,     *)
(* visible]; visible is the text returned to the caller.                   *)

\* The step as it would be with a false start discarded instead of flushed.
RECURSIVE feed_char_drops_false_start(_, _, _)
feed_char_drops_false_start(token, st, ch) ==
    IF IsNone(token) \/ Len(token.v) = 0
    THEN [st EXCEPT !.visible = Append(@, ch)]
    ELSE IF st.is_function_call
    THEN [st EXCEPT !.content = Append(@, ch)]
    ELSE IF ch = token.v[st.prefix_size + 1]
    THEN IF st.prefix_size + 1 = Len(token.v)
         THEN [st EXCEPT !.content = <<>>,
                         !.maybe_function_call = FALSE,
                         !.is_function_call = TRUE,
                         !.prefix_size = Len(token.v)]
         ELSE [st EXCEPT !.content = Append(@, ch),
                         !.maybe_function_call = TRUE,
                         !.prefix_size = @ + 1]
    ELSE IF st.prefix_size > 0
    THEN feed_char_drops_false_start(token,
                   [st EXCEPT !.content = <<>>,
                              !.maybe_function_call = FALSE,
                              !.prefix_size = 0],
                   ch)
    ELSE [st EXCEPT !.visible = Append(@, ch)]

RECURSIVE feed_char(_, _, _)
feed_char(token, st, ch) ==
    IF IsNone(token) \/ Len(token.v) = 0
    THEN [st EXCEPT !.visible = Append(@, ch)]
    ELSE IF st.is_function_call
    THEN [st EXCEPT !.content = Append(@, ch)]
    ELSE IF ch = token.v[st.prefix_size + 1]
    THEN IF st.prefix_size + 1 = Len(token.v)
         THEN [st EXCEPT !.content = <<>>,
                         !.maybe_function_call = FALSE,
                         !.is_function_call = TRUE,
                         !.prefix_size = Len(token.v)]
         ELSE [st EXCEPT !.content = Append(@, ch),
                         !.maybe_function_call = TRUE,
                         !.prefix_size = @ + 1]
    ELSE IF st.prefix_size > 0
    THEN feed_char(token,
                   [st EXCEPT !.visible = @ \o st.content,
                              !.content = <<>>,
                              !.maybe_function_call = FALSE,
                              !.prefix_size = 0],
                   ch)
    ELSE [st EXCEPT !.visible = Append(@, ch)]

\* The characters of chunk from the k-th on, one step each, in order.
RECURSIVE feed_from(_, _, _, _)
feed_from(token, st, chunk, k) ==
    IF k > Len(chunk) THEN st
    ELSE CHOOSE last \in {feed_from(token, next, chunk, k + 1) :
                              next \in {feed_char(token, st, chunk[k])}} : TRUE

\* feed as it would be with a pending prefix flushed at the end of a chunk.
feed_flushes_at_chunk_end(token, c, chunk) ==
    LET st == feed_from(token, [c EXCEPT !.visible = <<>>], chunk, 1) IN
    IF st.maybe_function_call
    THEN [st EXCEPT !.visible = @ \o st.content,
                    !.content = <<>>,
                    !.maybe_function_call = FALSE,
                    !.prefix_size = 0]
    ELSE st

\* feed(chunk) from the capture state c: the new state and the visible text.
feed(token, c, chunk) ==
    feed_from(token, [c EXCEPT !.visible = <<>>], chunk, 1)

FeedState(c, m, i, p) ==
    [content |-> c, maybe_function_call |-> m, is_function_call |-> i,
     prefix_size |-> p, visible |-> <<>>]

CaptureState == FeedState(content, maybe_function_call, is_function_call, prefix_size)

---------------------------------------------------------------------------
(* ChatPromptCapture.reset, make_calls_list and the converters.            *)

\* reset as it would be with the prefix counter forgotten.
reset_keeps_prefix(reset_calls_list) ==
    /\ content' = <<>>
    /\ maybe_function_call' = FALSE
    /\ is_function_call' = FALSE
    /\ prefix_size' = prefix_size
    /\ calls_list' = IF reset_calls_list THEN <<>> ELSE calls_list

\* reset clearing the call list whatever its argument.
reset_clears_calls_list(reset_calls_list) ==
    /\ content' = <<>>
    /\ maybe_function_call' = FALSE
    /\ is_function_call' = FALSE
    /\ prefix_size' = 0
    /\ calls_list' = <<>>

reset(reset_calls_list) ==
    /\ content' = <<>>
    /\ maybe_function_call' = FALSE
    /\ is_function_call' = FALSE
    /\ prefix_size' = 0
    /\ calls_list' = IF reset_calls_list THEN <<>> ELSE calls_list

num_calls(calls) == Len(calls)

\* The loop of make_calls_list over the segments from the k-th on: the call
\* list it leaves and the exception that ended it ("none": it returned).
RECURSIVE make_calls_loop(_, _, _)
make_calls_loop(segments, k, calls) ==
    IF k > Len(segments) THEN [calls |-> calls, exc |-> "none"]
    ELSE LET v_call == segments[k] IN
         IF Len(v_call) = 0 THEN make_calls_loop(segments, k + 1, calls)
         ELSE LET call_dict == json_loads(v_call) IN
              IF ~call_dict.ok
              THEN make_calls_loop(segments, k + 1, calls)
              ELSE LET has == py_in(KeyCall, call_dict.v) IN
                   IF has = "TypeError"
                   THEN [calls |-> calls, exc |-> "TypeError"]
                   ELSE IF has = "yes"
                   THEN make_calls_loop(segments, k + 1,
                                        Append(calls, call_dict.v))
                   ELSE make_calls_loop(segments, k + 1, calls)

\* make_calls_list starting from an empty call list at every finalization.
make_calls_list_restarts(buffer, token, calls) ==
    IF IsNone(token)
    THEN make_calls_loop(split_whitespace(buffer), 1, <<>>)
    ELSE IF Len(token.v) = 0
    THEN [calls |-> calls, exc |-> "ValueError"]
    ELSE make_calls_loop(split(buffer, token.v), 1, <<>>)

\* content.split(token) raises ValueError for the empty separator and splits
\* at whitespace for the separator None.
make_calls_list(buffer, token, calls) ==
    IF IsNone(token)
    THEN make_calls_loop(split_whitespace(buffer), 1, calls)
    ELSE IF Len(token.v) = 0
    THEN [calls |-> calls, exc |-> "ValueError"]
    ELSE make_calls_loop(split(buffer, token.v), 1, calls)

Raise(e) == [kind |-> "raise", exc |-> e]
ReturnNone == [kind |-> "None"]

\* calls[call_id] with Python's indexing; call_id >= -Len(calls).
PyIndex(calls, call_id) ==
    calls[IF call_id < 0 THEN Len(calls) + call_id + 1 ELSE call_id + 1]

CallPrefix == <<"c", "a", "l", "l", "_">>

\* The record of a dict call with a str name, with the id and the arguments
\* given.
CallRecord(name, id, arguments) ==
    [kind |-> "record", id |-> id, type |-> "function",
     function |-> [name |-> name, arguments |-> arguments]]

\* The conversion as it would be with the index left out of the id.
to_ChatCompletionMessageToolCall_no_index(calls, call_id) ==
    IF Len(calls) # 0 /\ call_id < Len(calls)
    THEN IF call_id < 0 - Len(calls) THEN Raise("IndexError")
         ELSE LET call == PyIndex(calls, call_id) IN
              IF call.t # "dict" THEN Raise("TypeError")
              ELSE IF ~DictHas(call, KeyCall) THEN Raise("KeyError")
              ELSE LET arguments == IF DictHas(call, KeyArguments)
                                    THEN DictGet(call, KeyArguments)
                                    ELSE None
                       name == DictGet(call, KeyCall)
                   IN  IF name.t # "str" THEN Raise("TypeError")
                       ELSE CallRecord(name.v, CallPrefix \o name.v,
                                       IF ~IsNone(arguments)
                                       THEN json_dumps(arguments) ELSE <<>>)
    ELSE ReturnNone

\* The conversion as it would be with every present arguments value encoded,
\* null included.
to_ChatCompletionMessageToolCall_dumps_null(calls, call_id) ==
    IF Len(calls) # 0 /\ call_id < Len(calls)
    THEN IF call_id < 0 - Len(calls) THEN Raise("IndexError")
         ELSE LET call == PyIndex(calls, call_id) IN
              IF call.t # "dict" THEN Raise("TypeError")
              ELSE IF ~DictHas(call, KeyCall) THEN Raise("KeyError")
              ELSE LET name == DictGet(call, KeyCall)
                   IN  IF name.t # "str" THEN Raise("TypeError")
                       ELSE CallRecord(name.v,
                                       CallPrefix \o name.v \o <<"_">> \o str(call_id),
                                       IF DictHas(call, KeyArguments)
                                       THEN json_dumps(DictGet(call, KeyArguments))
                                       ELSE <<>>)
    ELSE ReturnNone

to_ChatCompletionMessageToolCall(calls, call_id) ==
    IF Len(calls) # 0 /\ call_id < Len(calls)
    THEN IF call_id < 0 - Len(calls) THEN Raise("IndexError")
         ELSE LET call == PyIndex(calls, call_id) IN
              IF call.t # "dict" THEN Raise("TypeError")
              ELSE IF ~DictHas(call, KeyCall) THEN Raise("KeyError")
              ELSE LET arguments == IF DictHas(call, KeyArguments)
                                    THEN DictGet(call, KeyArguments)
                                    ELSE None
                       name == DictGet(call, KeyCall)
                   IN  IF name.t # "str" THEN Raise("TypeError")
                       ELSE CallRecord(name.v,
                                       CallPrefix \o name.v \o <<"_">> \o str(call_id),
                                       IF ~IsNone(arguments)
                                       THEN json_dumps(arguments) ELSE <<>>)
    ELSE ReturnNone

to_ChoiceDeltaToolCall(calls, call_id) ==
    LET mesg == to_ChatCompletionMessageToolCall(calls, call_id) IN
    IF mesg.kind = "record"
    THEN [kind |-> "delta", index |-> call_id, id |-> mesg.id,
          type |-> mesg.type, function |-> mesg.function]
    ELSE mesg

\* A list converter: the records of range(num_calls), or the exception of
\* the first index whose conversion raises.
ListOf(results) ==
    IF \E k \in 1..Len(results) : results[k].kind = "raise"
    THEN results[CHOOSE k \in 1..Len(results) :
                     /\ results[k].kind = "raise"
                     /\ \A j \in 1..(k - 1) : results[j].kind # "raise"]
    ELSE [kind |-> "list", v |-> results]

to_ChatCompletionMessageToolCallList(calls) ==
    ListOf([k \in 1..num_calls(calls) |->
                to_ChatCompletionMessageToolCall(calls, k - 1)])

to_ChoiceDeltaToolCallList(calls) ==
    ListOf([k \in 1..num_calls(calls) |->
                to_ChoiceDeltaToolCall(calls, k - 1)])

---------------------------------------------------------------------------
(* ToolsCallsTemplate.renderToolsList and OpenAIToolsPrompter.inject_prompt *)

\* template.render(CONTEXT=FUNCTIONS_LIST, tool_choice, tools_list): the
\* text names the choice and every tool of tools_list, in order.
render_functions_list(tool_choice, tools_list) ==
    <<"<tools choice=">>
        \o (IF IsNone(tool_choice) THEN <<"None">> ELSE tool_choice.v)
        \o <<">">>
        \o [k \in 1..Len(tools_list) |-> tools_list[k].name]
        \o <<"</tools>">>

\* The first tool of type "function" whose name is the choice; 0 if none.
FirstMatch(tool_choice, tools_list) ==
    IF \E k \in 1..Len(tools_list) :
           tools_list[k].type = "function" /\ <<tools_list[k].name>> = tool_choice.v
    THEN CHOOSE k \in 1..Len(tools_list) :
           /\ tools_list[k].type = "function"
           /\ <<tools_list[k].name>> = tool_choice.v
           /\ \A j \in 1..(k - 1) :
                  ~(tools_list[j].type = "function"
                    /\ <<tools_list[j].name>> = tool_choice.v)
    ELSE 0

Auto == JStr(<<"auto">>)

\* renderToolsList looking for a tool named "auto" like for any other name.
renderToolsList_scans_auto(tool_choice0, tools_list) ==
    IF ~IsNone(tool_choice0)
    THEN IF FirstMatch(tool_choice0, tools_list) # 0
         THEN JStr(render_functions_list(
                  tool_choice0,
                  <<tools_list[FirstMatch(tool_choice0, tools_list)]>>))
         ELSE None
    ELSE JStr(render_functions_list(tool_choice0, tools_list))

\* The rendered text as a str value, or None.
renderToolsList(tool_choice0, tools_list) ==
    LET tool_choice == IF tool_choice0.t = "str" /\ tool_choice0.v = Auto.v
                       THEN None ELSE tool_choice0
    IN  IF ~IsNone(tool_choice)
        THEN IF FirstMatch(tool_choice, tools_list) # 0
             THEN JStr(render_functions_list(
                      tool_choice,
                      <<tools_list[FirstMatch(tool_choice, tools_list)]>>))
             ELSE None
        ELSE JStr(render_functions_list(tool_choice, tools_list))

\* inject_prompt prepending the text to the content of every turn.
inject_prompt_every_turn(token, req, is_auto_object) ==
    IF ~IsNone(req.tools) /\ ~IsNone(token) /\ Len(req.tools.v) # 0
    THEN LET text_inject == renderToolsList(req.tool_choice, req.tools.v)
         IN  IF IsNone(text_inject) /\ (req.messages.t = "str" \/ Len(req.messages.v) >= 1)
             THEN [request |-> req, exc |-> "TypeError"]
             ELSE IF req.messages.t = "str"
             THEN [request |->
                       [req EXCEPT !.messages = JStr(text_inject.v \o req.messages.v)],
                   exc |-> "none"]
             ELSE [request |->
                       [req EXCEPT !.messages =
                            JList([k \in 1..Len(req.messages.v) |->
                                       [content |-> text_inject.v
                                                      \o req.messages.v[k].content]])],
                   exc |-> "none"]
    ELSE [request |-> req, exc |-> "none"]

\* inject_prompt without the test of the call token.
inject_prompt_ignores_token(token, req, is_auto_object) ==
    IF ~IsNone(req.tools) /\ Len(req.tools.v) # 0
    THEN LET text_inject == renderToolsList(req.tool_choice, req.tools.v)
         IN  IF IsNone(text_inject) /\ (req.messages.t = "str" \/ Len(req.messages.v) >= 1)
             THEN [request |-> req, exc |-> "TypeError"]
             ELSE IF req.messages.t = "str"
             THEN [request |->
                       [req EXCEPT !.messages = JStr(text_inject.v \o req.messages.v)],
                   exc |-> "none"]
             ELSE IF Len(req.messages.v) >= 1
             THEN [request |->
                       [req EXCEPT !.messages =
                            JList([req.messages.v EXCEPT ![1].content =
                                       text_inject.v \o @])],
                   exc |-> "none"]
             ELSE [request |-> req, exc |-> "none"]
    ELSE [request |-> req, exc |-> "none"]

\* inject_prompt on request req: the request it leaves and the exception it
\* raises ("none": it returned).  is_auto_object is the outcome of the
\* identity test `request.tool_choice is "auto"` for a choice equal to "auto".
inject_prompt(token, req, is_auto_object) ==
    IF ~IsNone(req.tools) /\ ~IsNone(token) /\ Len(req.tools.v) # 0
    THEN LET is_auto == req.tool_choice.t = "str"
                        /\ req.tool_choice.v = Auto.v /\ is_auto_object
             select_tool_choice ==
                 IF ~IsNone(req.tool_choice) /\ ~is_auto
                 THEN req.tool_choice ELSE None
             text_inject == renderToolsList(select_tool_choice, req.tools.v)
         IN  IF req.messages.t = "str"
             THEN IF IsNone(text_inject)
                  THEN [request |-> req, exc |-> "TypeError"]
                  ELSE [request |->
                            [req EXCEPT !.messages =
                                 JStr(text_inject.v \o req.messages.v)],
                        exc |-> "none"]
             ELSE IF req.messages.t = "list" /\ Len(req.messages.v) >= 1
             THEN IF IsNone(text_inject)
                  THEN [request |-> req, exc |-> "TypeError"]
                  ELSE [request |->
                            [req EXCEPT !.messages =
                                 JList([req.messages.v EXCEPT ![1].content =
                                            text_inject.v \o @])],
                        exc |-> "none"]
             ELSE [request |-> req, exc |-> "none"]
    ELSE [request |-> req, exc |-> "none"]

\* OpenAIToolsPrompter.__init__ with get_func_call_token() returning rendered:
\* the token it keeps and the exception it raises ("none": it returned).
\* rendered[0] of the empty string raises IndexError.
OpenAIToolsPrompter_init(rendered) ==
    IF IsNone(rendered)
    THEN [call_token_str |-> None, exc |-> "none"]
    ELSE IF Len(rendered.v) = 0
    THEN [call_token_str |-> rendered, exc |-> "IndexError"]
    ELSE [call_token_str |-> rendered, exc |-> "none"]

---------------------------------------------------------------------------
(* Requests.                                                               *)

ToolNames == {"time", "weather", "auto"}
ToolTypes == {"function", "retrieval"}
Tools == [type : ToolTypes, name : ToolNames]
ToolLists == {<<>>} \cup {<<a>> : a \in Tools} \cup {<<a, b>> : a, b \in Tools}

RequestTools == {None} \cup {JList(l) : l \in ToolLists}
RequestToolChoices == {None} \cup {JStr(<<n>>) : n \in ToolNames}
Turn(c) == [content |-> c]
RequestMessages ==
    {JStr(<<"p">>), JList(<<>>), JList(<<Turn(<<"s">>)>>),
     JList(<<Turn(<<"s">>), Turn(<<"u">>)>>)}

Requests ==
    [messages : RequestMessages, tools : RequestTools,
     tool_choice : RequestToolChoices]

NoRequest == [messages |-> JStr(<<>>), tools |-> None, tool_choice |-> None]

---------------------------------------------------------------------------
(* Initial states.                                                         *)

InitPrompter == call_token_str = JStr(FuncCallToken)

\* A second capture, as constructed.
FreshCapture ==
    [content |-> <<>>, maybe_function_call |-> FALSE, is_function_call |-> FALSE,
     prefix_size |-> 0, calls_list |-> <<>>, fed |-> 0]

\* The values of the globals openai_serving_chat and
\* openai_serving_completion: None, deleted, or the object of the n-th load.
NoService == [state |-> "None", gen |-> 0]
Unbound == [state |-> "unbound", gen |-> 0]
Service(n) == [state |-> "object", gen |-> n]

\* The server in __main__ before its services are loaded.
ServerStart(enable_api_tools, dev_mode) ==
    [pc |-> "main", enable_api_tools |-> enable_api_tools, dev_mode |-> dev_mode,
     openai_serving_chat |-> NoService, openai_serving_completion |-> NoService,
     loads |-> 0, awaited |-> {}, last |-> [op |-> "none", exc |-> "none"]]

InitServer == ServerStart(TRUE, TRUE)

InitOther ==
    /\ prompter = [status |-> "constructed", exc |-> "none"]
    /\ capture2 = FreshCapture
    /\ server = InitServer

InitCapture ==
    /\ content = <<>>
    /\ maybe_function_call = FALSE
    /\ is_function_call = FALSE
    /\ prefix_size = 0
    /\ calls_list = <<>>
    /\ fed = 0
    /\ out = [op |-> "__init__"]

Init ==
    /\ InitPrompter
    /\ InitCapture
    /\ text = <<>>
    /\ pos = 0
    /\ visible = <<>>
    /\ request = NoRequest
    /\ inject_out = [status |-> "none"]
    /\ InitOther

---------------------------------------------------------------------------
(* Actions on one capture.                                                 *)

SetCapture(st) ==
    /\ content' = st.content
    /\ maybe_function_call' = st.maybe_function_call
    /\ is_function_call' = st.is_function_call
    /\ prefix_size' = st.prefix_size

Feed(chunk) ==
    /\ fed < MaxFeeds
    /\ SetCapture(feed(call_token_str, CaptureState, chunk))
    /\ fed' = fed + 1
    /\ out' = [op |-> "feed"]
    /\ UNCHANGED <<otherVars, call_token_str, calls_list, feedVars, injectVars>>

Reset(reset_calls_list) ==
    /\ reset(reset_calls_list)
    /\ fed' = 0
    /\ out' = [op |-> "reset", arg |-> reset_calls_list]
    /\ UNCHANGED <<otherVars, call_token_str, feedVars, injectVars>>

MakeCallsList ==
    LET r == make_calls_list(content, call_token_str, calls_list) IN
    /\ Len(r.calls) <= MaxCalls
    /\ calls_list' = r.calls
    /\ out' = [op |-> "make_calls_list", exc |-> r.exc]
    /\ UNCHANGED <<otherVars, call_token_str, content, maybe_function_call,
                   is_function_call, prefix_size, fed, feedVars, injectVars>>

\* The indices a conversion is asked for: below, inside and past the list.
CallIds == (0 - 2)..Len(calls_list)

Convert(r) ==
    /\ out' = r
    /\ UNCHANGED <<otherVars, call_token_str, captureVars, fed, feedVars, injectVars>>

ToChatCompletionMessageToolCall(call_id) ==
    Convert([op |-> "to_ChatCompletionMessageToolCall", call_id |-> call_id,
             res |-> to_ChatCompletionMessageToolCall(calls_list, call_id)])

ToChoiceDeltaToolCall(call_id) ==
    Convert([op |-> "to_ChoiceDeltaToolCall", call_id |-> call_id,
             res |-> to_ChoiceDeltaToolCall(calls_list, call_id)])

ToChatCompletionMessageToolCallList ==
    Convert([op |-> "to_ChatCompletionMessageToolCallList",
             res |-> to_ChatCompletionMessageToolCallList(calls_list)])

ToChoiceDeltaToolCallList ==
    Convert([op |-> "to_ChoiceDeltaToolCallList",
             res |-> to_ChoiceDeltaToolCallList(calls_list)])

Next ==
    \/ \E chunk \in Chunks : Feed(chunk)
    \/ \E reset_calls_list \in BOOLEAN : Reset(reset_calls_list)
    \/ MakeCallsList

\* The capture's life: chunks fed, finalizations and resets in any order.
Spec == Init /\ [][Next]_vars

\* The chunks whose payload make_calls_list appends to the call list.
ConvertChunks ==
    {FuncCallToken \o p :
         p \in {PayloadA, PayloadNullArgs, PayloadArgs, PayloadString}}

NextConvert ==
    \/ \E chunk \in ConvertChunks : Feed(chunk)
    \/ \E reset_calls_list \in BOOLEAN : Reset(reset_calls_list)
    \/ MakeCallsList
    \/ \E call_id \in CallIds : ToChatCompletionMessageToolCall(call_id)
    \/ \E call_id \in CallIds : ToChoiceDeltaToolCall(call_id)
    \/ ToChatCompletionMessageToolCallList
    \/ ToChoiceDeltaToolCallList

\* The capture's life with the conversions of its call list.
SpecConvert == Init /\ [][NextConvert]_vars

---------------------------------------------------------------------------
(* One generated text fed to a fresh capture in chunks, then finalized.    *)

\* The pieces a generated text is made of.
Fragments ==
    {<<"!">>, <<"!", "!">>, <<"x">>,
     FuncCallToken \o PayloadA, FuncCallToken \o PayloadNotJson}

RECURSIVE TextsUpTo(_)
TextsUpTo(n) ==
    IF n = 0 THEN {<<>>}
    ELSE TextsUpTo(n - 1) \cup {t \o f : t \in TextsUpTo(n - 1), f \in Fragments}

InitFeed ==
    /\ InitPrompter
    /\ InitCapture
    /\ text \in TextsUpTo(MaxFragments)
    /\ pos = 0
    /\ visible = <<>>
    /\ request = NoRequest
    /\ inject_out = [status |-> "none"]
    /\ InitOther

\* The next n characters of the text arrive as one chunk.
FeedText(n) ==
    LET st == feed(call_token_str, CaptureState, SubSeq(text, pos + 1, pos + n)) IN
    /\ SetCapture(st)
    /\ visible' = visible \o st.visible
    /\ pos' = pos + n
    /\ fed' = fed + 1
    /\ out' = [op |-> "feed"]
    /\ UNCHANGED <<otherVars, call_token_str, calls_list, text, injectVars>>

\* Generation has ended: the capture is finalized, once.
Finalize ==
    /\ pos = Len(text)
    /\ out.op # "make_calls_list"
    /\ MakeCallsList

NextFeed ==
    \/ \E n \in 1..(Len(text) - pos) : FeedText(n)
    \/ Finalize

SpecFeed == InitFeed /\ [][NextFeed]_vars

---------------------------------------------------------------------------
(* One request handed to inject_prompt.                                    *)

InitInject ==
    /\ call_token_str \in {JStr(FuncCallToken), None}
    /\ InitCapture
    /\ text = <<>>
    /\ pos = 0
    /\ visible = <<>>
    /\ request \in Requests
    /\ inject_out = [status |-> "pending"]
    /\ InitOther

InjectPrompt(is_auto_object) ==
    LET r == inject_prompt(call_token_str, request, is_auto_object) IN
    /\ inject_out.status = "pending"
    /\ request' = r.request
    /\ inject_out' = [status |-> IF r.exc = "none" THEN "returned" ELSE "raised",
                      exc |-> r.exc]
    /\ UNCHANGED <<otherVars, call_token_str, captureVars, fed, out, feedVars>>

NextInject == \E is_auto_object \in BOOLEAN : InjectPrompt(is_auto_object)

SpecInject == InitInject /\ [][NextInject]_vars

---------------------------------------------------------------------------
(* A prompter constructed from what the template renders as call token,    *)
(* then one generated text fed to a fresh capture and finalized.           *)

\* What get_func_call_token() returns: the token, the empty string of a
\* template that renders nothing for CALL_TOKEN, and the None that __init__
\* tests for.
RenderedTokens == {JStr(FuncCallToken), JStr(<<>>), None}

InitConstruct ==
    /\ call_token_str = None
    /\ InitCapture
    /\ text \in TextsUpTo(MaxFragments - 1)
    /\ pos = 0
    /\ visible = <<>>
    /\ request = NoRequest
    /\ inject_out = [status |-> "none"]
    /\ prompter = [status |-> "none", exc |-> "none"]
    /\ capture2 = FreshCapture
    /\ server = InitServer

Construct(rendered) ==
    LET r == OpenAIToolsPrompter_init(rendered) IN
    /\ prompter.status = "none"
    /\ call_token_str' = r.call_token_str
    /\ prompter' = [status |-> IF r.exc = "none" THEN "constructed" ELSE "raised",
                    exc |-> r.exc]
    /\ UNCHANGED <<captureVars, fed, out, feedVars, injectVars, capture2, server>>

\* Captures exist only for a prompter that was constructed.
NextConstruct ==
    \/ \E rendered \in RenderedTokens : Construct(rendered)
    \/ \E n \in 1..(Len(text) - pos) : prompter.status = "constructed" /\ FeedText(n)
    \/ prompter.status = "constructed" /\ Finalize

SpecConstruct == InitConstruct /\ [][NextConstruct]_vars

---------------------------------------------------------------------------
(* Two captures of one prompter, their operations interleaved.  The        *)
(* operations on the second capture act on the record capture2 and leave   *)
(* self |-> "capture2" in out.                                             *)

Capture2Frame ==
    UNCHANGED <<call_token_str, captureVars, fed, feedVars, injectVars,
                prompter, server>>

Feed2(chunk) ==
    LET st == feed(call_token_str,
                   FeedState(capture2.content, capture2.maybe_function_call,
                             capture2.is_function_call, capture2.prefix_size),
                   chunk)
    IN  /\ capture2.fed < MaxFeeds
        /\ capture2' = [capture2 EXCEPT
                            !.content = st.content,
                            !.maybe_function_call = st.maybe_function_call,
                            !.is_function_call = st.is_function_call,
                            !.prefix_size = st.prefix_size,
                            !.fed = @ + 1]
        /\ out' = [op |-> "feed", self |-> "capture2"]
        /\ Capture2Frame

Reset2(reset_calls_list) ==
    /\ capture2' = [content |-> <<>>,
                    maybe_function_call |-> FALSE,
                    is_function_call |-> FALSE,
                    prefix_size |-> 0,
                    calls_list |-> IF reset_calls_list THEN <<>>
                                   ELSE capture2.calls_list,
                    fed |-> 0]
    /\ out' = [op |-> "reset", arg |-> reset_calls_list, self |-> "capture2"]
    /\ Capture2Frame

\* make_calls_list with the call list a class attribute, one for all captures.
MakeCallsList2_shared_calls_list ==
    LET r == make_calls_list(capture2.content, call_token_str,
                             calls_list \o capture2.calls_list) IN
    /\ Len(r.calls) <= MaxCalls
    /\ capture2' = [capture2 EXCEPT !.calls_list = r.calls]
    /\ calls_list' = r.calls
    /\ out' = [op |-> "make_calls_list", exc |-> r.exc, self |-> "capture2"]
    /\ UNCHANGED <<call_token_str, content, maybe_function_call, is_function_call,
                   prefix_size, fed, feedVars, injectVars, prompter, server>>

MakeCallsList2 ==
    LET r == make_calls_list(capture2.content, call_token_str,
                             capture2.calls_list) IN
    /\ Len(r.calls) <= MaxCalls
    /\ capture2' = [capture2 EXCEPT !.calls_list = r.calls]
    /\ out' = [op |-> "make_calls_list", exc |-> r.exc, self |-> "capture2"]
    /\ Capture2Frame

ToChatCompletionMessageToolCallList2 ==
    /\ out' = [op |-> "to_ChatCompletionMessageToolCallList",
               res |-> to_ChatCompletionMessageToolCallList(capture2.calls_list),
               self |-> "capture2"]
    /\ UNCHANGED capture2
    /\ Capture2Frame

\* What the first capture is fed, and what the second.
Chunk1 == FuncCallToken \o PayloadA
Chunk2 == FuncCallToken \o PayloadArgs

NextTwo ==
    \/ Feed(Chunk1)
    \/ \E reset_calls_list \in BOOLEAN : Reset(reset_calls_list)
    \/ MakeCallsList
    \/ ToChatCompletionMessageToolCallList
    \/ Feed2(Chunk2)
    \/ \E reset_calls_list \in BOOLEAN : Reset2(reset_calls_list)
    \/ MakeCallsList2
    \/ ToChatCompletionMessageToolCallList2

SpecTwo == Init /\ [][NextTwo]_vars

---------------------------------------------------------------------------
(* api_server: the serving globals, their (re)loading and the handlers.    *)
(* _loadServingServices has no await: it runs to its end, or to the        *)
(* exception it raises, before any other handler runs.                     *)

\* The loads of one run of the server, and the calls awaited at one time.
MaxLoads == 3
MaxAwaited == 2

\* _loadServingServices as the n-th load, the template rendering rendered as
\* call token: the two globals it leaves and the exception it raises.  A
\* deleted global raises NameError when tested against None.
loadServingServices(srv, rendered, n) ==
    LET chat == srv.openai_serving_chat
        completion == srv.openai_serving_completion
        chat1 == IF chat.state = "None" THEN chat ELSE Unbound
        completion1 == IF completion.state = "None" THEN completion ELSE Unbound
        tools == IF srv.enable_api_tools
                 THEN OpenAIToolsPrompter_init(rendered)
                 ELSE [call_token_str |-> None, exc |-> "none"]
    IN  IF chat.state = "unbound"
        THEN [chat |-> chat, completion |-> completion, exc |-> "NameError"]
        ELSE IF completion.state = "unbound"
        THEN [chat |-> chat1, completion |-> completion, exc |-> "NameError"]
        ELSE IF tools.exc # "none"
        THEN [chat |-> chat1, completion |-> completion1, exc |-> tools.exc]
        ELSE [chat |-> Service(n), completion |-> Service(n), exc |-> "none"]

ServerFrame ==
    UNCHANGED <<call_token_str, captureVars, fed, out, feedVars, injectVars,
                prompter, capture2>>

\* __main__: the first load; an exception ends the process.
Main(rendered) ==
    LET r == loadServingServices(server, rendered, 1) IN
    /\ server.pc = "main"
    /\ server' = [server EXCEPT
                      !.pc = IF r.exc = "none" THEN "serving" ELSE "exited",
                      !.openai_serving_chat = r.chat,
                      !.openai_serving_completion = r.completion,
                      !.loads = 1,
                      !.last = [op |-> "main", exc |-> r.exc]]
    /\ ServerFrame

\* GET /privileged, a route of the dev mode only.
Privileged(rendered) ==
    LET r == loadServingServices(server, rendered, server.loads + 1) IN
    /\ server.pc = "serving"
    /\ server.dev_mode
    /\ server.loads < MaxLoads
    /\ server' = [server EXCEPT
                      !.openai_serving_chat = r.chat,
                      !.openai_serving_completion = r.completion,
                      !.loads = @ + 1,
                      !.last = [op |-> "privileged", exc |-> r.exc]]
    /\ ServerFrame

\* A handler evaluates the global handle and awaits the method it calls: an
\* awaited call keeps the object it was made on, whatever is loaded since.
Handler(op, handle) ==
    /\ server.pc = "serving"
    /\ Cardinality(server.awaited) < MaxAwaited
    /\ server' = [server EXCEPT
                      !.awaited = IF handle.state = "unbound" THEN @
                                  ELSE @ \cup {[op |-> op, gen |-> handle.gen]},
                      !.last = [op |-> op,
                                exc |-> IF handle.state = "unbound"
                                        THEN "NameError" ELSE "none"]]
    /\ ServerFrame

ShowAvailableModels == Handler("show_available_models", server.openai_serving_chat)

CreateChatCompletion == Handler("create_chat_completion", server.openai_serving_chat)

CreateCompletion == Handler("create_completion", server.openai_serving_completion)

\* The awaited call a returns and its handler sends the response.
Respond(a) ==
    /\ a \in server.awaited
    /\ server' = [server EXCEPT !.awaited = @ \ {a},
                                !.last = [op |-> "response", exc |-> "none"]]
    /\ ServerFrame

InitServing ==
    /\ InitPrompter
    /\ InitCapture
    /\ text = <<>>
    /\ pos = 0
    /\ visible = <<>>
    /\ request = NoRequest
    /\ inject_out = [status |-> "none"]
    /\ prompter = [status |-> "constructed", exc |-> "none"]
    /\ capture2 = FreshCapture
    /\ server \in {ServerStart(e, d) : e, d \in BOOLEAN}

NextServing ==
    \/ \E rendered \in RenderedTokens : Main(rendered)
    \/ \E rendered \in RenderedTokens : Privileged(rendered)
    \/ ShowAvailableModels
    \/ CreateChatCompletion
    \/ CreateCompletion
    \/ \E a \in server.awaited : Respond(a)

SpecServing == InitServing /\ [][NextServing]_vars

---------------------------------------------------------------------------
(* Claims about finalization and reset (specification Spec).               *)

\* The JSON text of every element of a call list: two call lists are the
\* same when their texts are.
Dumps(calls) == [k \in 1..Len(calls) |-> json_dumps(calls[k])]

IsCall(x) == x.t = "dict" /\ DictHas(x, KeyCall)

\* C1: make_calls_list never raises, and a segment that does not decode to a
\* map with a `call` key is dropped: after every finalization the operation
\* has returned and every element of the call list is such a map.
C1_FinalizationNeverRaises ==
    out.op = "make_calls_list" =>
        /\ out.exc = "none"
        /\ \A k \in 1..Len(calls_list) : IsCall(calls_list[k])

\* The payloads the claim expects of the segments from the k-th on: those
\* that are not empty, decode, and are a map with a `call` key, in order.
RECURSIVE ExpectedCalls(_, _)
ExpectedCalls(segments, k) ==
    IF k > Len(segments) THEN <<>>
    ELSE LET d == json_loads(segments[k]) IN
         (IF Len(segments[k]) # 0 /\ d.ok /\ IsCall(d.v) THEN <<d.v>> ELSE <<>>)
             \o ExpectedCalls(segments, k + 1)

\* C2: make_calls_list on buffer B and call list L leaves L followed by
\* exactly the decoded valid segments of B, in the order of the segments.
C2_CallsAppendedInOrder ==
    [][out'.op = "make_calls_list" =>
           Dumps(calls_list') =
               Dumps(calls_list)
                   \o Dumps(ExpectedCalls(split(content, call_token_str.v), 1))]_vars

\* C6: reset(reset_calls_list) empties the buffer, clears both flags and the
\* prefix size; it empties the call list when reset_calls_list is true and
\* leaves it as it was when it is false.
C6_ResetClears ==
    [][out'.op = "reset" =>
           /\ content' = <<>>
           /\ maybe_function_call' = FALSE
           /\ is_function_call' = FALSE
           /\ prefix_size' = 0
           /\ out'.arg => calls_list' = <<>>
           /\ ~out'.arg => Dumps(calls_list') = Dumps(calls_list)]_vars

\* A reset(False) that kept a non-empty call list.
C6_Witness ==
    /\ out.op = "reset"
    /\ ~out.arg
    /\ Len(calls_list) > 0
    /\ content = <<>>
    /\ prefix_size = 0

---------------------------------------------------------------------------
(* Claims about the converters (specification SpecConvert).                *)

InBounds(call_id) == 0 <= call_id /\ call_id < Len(calls_list)

\* C7: to_ChatCompletionMessageToolCall(i) returns None exactly when i is out
\* of bounds, negative i included, and the record of calls[i] otherwise.
C7_NoneIffOutOfBounds ==
    out.op = "to_ChatCompletionMessageToolCall" =>
        /\ out.res.kind = "None" <=> ~InBounds(out.call_id)
        /\ out.res.kind \in {"None", "record"}

ConvertOps ==
    {"to_ChatCompletionMessageToolCall", "to_ChoiceDeltaToolCall",
     "to_ChatCompletionMessageToolCallList", "to_ChoiceDeltaToolCallList"}

\* The conversion named by the operation o, made again on calls.
Reconverted(calls, o) ==
    CASE o.op = "to_ChatCompletionMessageToolCall" ->
             to_ChatCompletionMessageToolCall(calls, o.call_id)
      [] o.op = "to_ChoiceDeltaToolCall" ->
             to_ChoiceDeltaToolCall(calls, o.call_id)
      [] o.op = "to_ChatCompletionMessageToolCallList" ->
             to_ChatCompletionMessageToolCallList(calls)
      [] o.op = "to_ChoiceDeltaToolCallList" ->
             to_ChoiceDeltaToolCallList(calls)

\* The id "call_" + name + "_" + index of the call at call_id.
ExpectedId(calls, call_id) ==
    CallPrefix \o DictGet(PyIndex(calls, call_id), KeyCall).v
        \o <<"_">> \o str(call_id)

\* The records of the indices 0 .. len(calls) - 1.
AllRecords(calls) ==
    [k \in 1..Len(calls) |-> to_ChatCompletionMessageToolCall(calls, k - 1)]

\* What the conversion o of calls returned: the id of a single record, the
\* ids of all the records of the list when the whole list was converted, and
\* the same result when the conversion is made again.
C8_Ids(calls, o) ==
    /\ (o.op \in {"to_ChatCompletionMessageToolCall", "to_ChoiceDeltaToolCall"}
        /\ o.res.kind \in {"record", "delta"})
           => o.res.id = ExpectedId(calls, o.call_id)
    /\ o.op \in {"to_ChatCompletionMessageToolCallList",
                 "to_ChoiceDeltaToolCallList"} =>
           \A recs \in {AllRecords(calls)} :
               /\ \A k \in 1..Len(recs) :
                      recs[k].kind = "record"
                          => recs[k].id = ExpectedId(calls, k - 1)
               /\ \A j, k \in 1..Len(recs) :
                      (j < k /\ recs[j].kind = "record" /\ recs[k].kind = "record")
                          => recs[j].id # recs[k].id
    /\ o.res = Reconverted(calls, o)

\* C8: the id of every record a conversion returns for index i is
\* "call_" + name + "_" + i, the ids of the records of one call list are
\* pairwise distinct, and a conversion changes no field of the capture: made
\* again it returns the same result.
C8_IdsStableAndDistinct ==
    [][out'.op \in ConvertOps =>
           /\ UNCHANGED captureVars
           /\ \A calls \in {calls_list'}, o \in {out'} : C8_Ids(calls, o)]_vars

\* The list conversion of two calls of the same name.
C8_Witness ==
    /\ out.op = "to_ChatCompletionMessageToolCallList"
    /\ out.res.kind = "list"
    /\ Len(out.res.v) = 2
    /\ out.res.v[1].function.name = out.res.v[2].function.name
    /\ out.res.v[1].id # out.res.v[2].id

\* C9: both list converters return len(calls) records, the k-th that of
\* calls[k]; a delta record is None exactly when the complete record is, and
\* otherwise has its id, type and function, and index = i.
C9_ListConvertersTotal ==
    /\ out.op \in {"to_ChatCompletionMessageToolCallList",
                   "to_ChoiceDeltaToolCallList"} =>
           /\ out.res.kind = "list"
           /\ Len(out.res.v) = Len(calls_list)
           /\ \A k \in 1..Len(out.res.v) :
                  /\ out.res.v[k].kind \in {"record", "delta"}
                  /\ out.res.v[k].id = ExpectedId(calls_list, k - 1)
    /\ out.op = "to_ChoiceDeltaToolCall" =>
           LET mesg == to_ChatCompletionMessageToolCall(calls_list, out.call_id) IN
           /\ out.res.kind = "None" <=> mesg.kind = "None"
           /\ out.res.kind = "delta" <=> mesg.kind = "record"
           /\ out.res.kind = "delta" =>
                  /\ out.res.index = out.call_id
                  /\ out.res.id = mesg.id
                  /\ out.res.type = mesg.type
                  /\ out.res.function = mesg.function

\* The raw call a returned record was built from.
ConvertedCall == PyIndex(calls_list, out.call_id)
HasArguments(call) == DictHas(call, KeyArguments)

\* C10 as claimed: the arguments field is the JSON encoding of the raw
\* arguments value whenever the raw call has that key, and the empty string
\* exactly when it has not.
C10_EmptyIffNoKey ==
    (out.op = "to_ChatCompletionMessageToolCall" /\ out.res.kind = "record") =>
        /\ out.res.function.arguments = <<>> <=> ~HasArguments(ConvertedCall)
        /\ HasArguments(ConvertedCall) =>
               out.res.function.arguments =
                   json_dumps(DictGet(ConvertedCall, KeyArguments))

\* C10 as amended: the arguments field is the empty string exactly when the
\* raw call has no arguments key or its arguments value is null; otherwise
\* it is the JSON encoding of the value, which decodes to that value again.
C10_ArgumentsEncoding ==
    (out.op = "to_ChatCompletionMessageToolCall" /\ out.res.kind = "record") =>
        LET absent == \/ ~HasArguments(ConvertedCall)
                      \/ IsNone(DictGet(ConvertedCall, KeyArguments))
            field == out.res.function.arguments
        IN  /\ field = <<>> <=> absent
            /\ ~absent =>
                   /\ field = json_dumps(DictGet(ConvertedCall, KeyArguments))
                   /\ json_loads(field).ok
                   /\ json_dumps(json_loads(field).v) = field

\* The record of a call whose arguments value is null.
C10_Witness ==
    /\ out.op = "to_ChatCompletionMessageToolCall"
    /\ out.res.kind = "record"
    /\ HasArguments(ConvertedCall)
    /\ IsNone(DictGet(ConvertedCall, KeyArguments))
    /\ out.res.function.arguments = <<>>

---------------------------------------------------------------------------
(* Claims about feeding (specification SpecFeed).                          *)

FreshState == FeedState(<<>>, FALSE, FALSE, 0)

\* The text fed so far, fed to a fresh capture as one chunk.
Whole == feed(call_token_str, FreshState, SubSeq(text, 1, pos))

\* C3: however the text is cut into chunks, the visible text, the capture
\* and the finalized call list are those of the text fed as a single chunk.
C3_ChunkBoundaryIndependence ==
    /\ visible = Whole.visible
    /\ content = Whole.content
    /\ maybe_function_call = Whole.maybe_function_call
    /\ is_function_call = Whole.is_function_call
    /\ prefix_size = Whole.prefix_size
    /\ out.op = "make_calls_list" =>
           Dumps(calls_list) =
               Dumps(make_calls_list(Whole.content, call_token_str, <<>>).calls)

\* A text with a false start, a visible character, a token and a call, fed
\* one character at a time to its end and finalized.
C3_Witness ==
    /\ pos = Len(text)
    /\ fed = Len(text)
    /\ out.op = "make_calls_list"
    /\ Len(calls_list) = 1
    /\ visible = <<"!", "x">>

Token == call_token_str.v

\* C4: when the stream has matched the first k characters of the token,
\* 1 <= k <= len(token) - 1, and the next character c breaks the match, the
\* k characters go to the visible text once, followed by c unless c starts a
\* new match; prefix_size is that of c tried at position 0, and the capture
\* is not confirmed.
C4_FalseStartRecovery ==
    [][\A k \in 1..(Len(Token) - 1) :
           LET chunk == SubSeq(text, pos + 1, pos') IN
           (/\ pos' > pos
            /\ ~is_function_call
            /\ prefix_size <= k
            /\ Len(chunk) = k - prefix_size + 1
            /\ SubSeq(chunk, 1, Len(chunk) - 1) = SubSeq(Token, prefix_size + 1, k)
            /\ chunk[Len(chunk)] # Token[k + 1])
           =>
           LET c == chunk[Len(chunk)]
               again == c = Token[1]
           IN  /\ visible' = visible \o SubSeq(Token, 1, k)
                                 \o (IF again THEN <<>> ELSE <<c>>)
               /\ prefix_size' = (IF again THEN 1 ELSE 0)
               /\ maybe_function_call' = again
               /\ is_function_call' = FALSE
               /\ content' = (IF again THEN <<c>> ELSE <<>>)]_vars

\* The false start of k = 2 characters broken by a character that is itself
\* the first of the token.
C4_Witness ==
    /\ SubSeq(text, 1, pos) = <<"!", "!", "!">>
    /\ visible = <<"!", "!">>
    /\ prefix_size = 1
    /\ maybe_function_call
    /\ ~is_function_call

---------------------------------------------------------------------------
(* Claims about inject_prompt (specification SpecInject).                  *)

\* The request names a tool, and no tool of its non-empty list has the name.
UnknownToolChoice(req) ==
    /\ ~IsNone(req.tools)
    /\ Len(req.tools.v) # 0
    /\ ~IsNone(req.tool_choice)
    /\ req.tool_choice.v # Auto.v
    /\ \A k \in 1..Len(req.tools.v) : <<req.tools.v[k].name>> # req.tool_choice.v

\* C5: for a tool choice naming no tool of the non-empty tool list,
\* inject_prompt reports an error and leaves the conversation as it was.
C5_UnknownToolChoiceReported ==
    [][(inject_out.status = "pending" /\ inject_out'.status # "pending"
        /\ UnknownToolChoice(request))
           => (inject_out'.status = "raised" /\ request' = request)]_vars

\* inject_prompt renders and prepends: the request has tools, the list is not
\* empty and the call token is defined.
Injects(req) ==
    /\ ~IsNone(req.tools)
    /\ Len(req.tools.v) # 0
    /\ ~IsNone(call_token_str)

\* C11: an injection that returns prepends the rendered text to a raw prompt
\* string, or to the content of the first turn only, keeps the number, order
\* and content of all other turns, and leaves tools and tool_choice alone.
C11_InjectionFrame ==
    [][(inject_out.status = "pending" /\ inject_out'.status = "returned"
        /\ Injects(request))
           => \A old \in {request}, new \in {request'} :
                  LET rendered == renderToolsList(old.tool_choice, old.tools.v).v IN
                  /\ new.tools = old.tools
                  /\ new.tool_choice.t = old.tool_choice.t
                  /\ new.tool_choice.v = old.tool_choice.v
                  /\ new.messages.t = old.messages.t
                  /\ old.messages.t = "str" =>
                         new.messages.v = rendered \o old.messages.v
                  /\ old.messages.t = "list" =>
                         /\ Len(new.messages.v) = Len(old.messages.v)
                         /\ \A k \in 1..Len(old.messages.v) :
                                new.messages.v[k].content =
                                    IF k = 1
                                    THEN rendered \o old.messages.v[k].content
                                    ELSE old.messages.v[k].content]_vars

\* An injection into a conversation of two turns.
C11_Witness ==
    /\ inject_out.status = "returned"
    /\ Injects(request)
    /\ request.messages.t = "list"
    /\ Len(request.messages.v) = 2
    /\ Len(request.messages.v[1].content) > 1
    /\ request.messages.v[2].content = <<"u">>

\* C12: with no tools, an empty tool list or an undefined call token,
\* inject_prompt returns and the request is as it was, whatever the choice.
C12_NoToolsUnchanged ==
    [][(inject_out.status = "pending" /\ inject_out'.status # "pending"
        /\ ~Injects(request))
           => (inject_out'.status = "returned" /\ request' = request)]_vars

\* A request with tools and a choice, handed to a prompter without token.
C12_Witness ==
    /\ inject_out.status = "returned"
    /\ IsNone(call_token_str)
    /\ ~IsNone(request.tools)
    /\ Len(request.tools.v) = 2
    /\ ~IsNone(request.tool_choice)
    /\ request.messages.t = "list"
    /\ Len(request.messages.v) = 2

\* The index of the first tool, of any type, whose name is the choice; 0 if
\* the choice is None, is "auto", or names no tool of the list.
FirstNamed(req) ==
    IF /\ ~IsNone(req.tools)
       /\ ~IsNone(req.tool_choice)
       /\ req.tool_choice.v # Auto.v
       /\ \E k \in 1..Len(req.tools.v) : <<req.tools.v[k].name>> = req.tool_choice.v
    THEN CHOOSE k \in 1..Len(req.tools.v) :
             /\ <<req.tools.v[k].name>> = req.tool_choice.v
             /\ \A j \in 1..(k - 1) : <<req.tools.v[j].name>> # req.tool_choice.v
    ELSE 0

\* The text at the head of the conversation new is text followed by the head
\* of the conversation old; a conversation without turns has no head.
HeadPrepended(old, new, rendered) ==
    /\ new.messages.t = old.messages.t
    /\ old.messages.t = "str" => new.messages.v = rendered \o old.messages.v
    /\ old.messages.t = "list" =>
           /\ Len(new.messages.v) = Len(old.messages.v)
           /\ Len(old.messages.v) >= 1 =>
                  new.messages.v[1].content = rendered \o old.messages.v[1].content

\* C13: for a choice naming a tool of the list, inject_prompt returns and the
\* text it prepends is the rendering of one tool, the first of the list, of
\* whatever type, whose name is the choice.
C13_FirstMatchRendered ==
    [][(inject_out.status = "pending" /\ inject_out'.status # "pending"
        /\ Injects(request) /\ FirstNamed(request) # 0)
           => /\ inject_out'.status = "returned"
              /\ \A old \in {request}, new \in {request'} :
                     HeadPrepended(old, new,
                         render_functions_list(
                             old.tool_choice,
                             <<old.tools.v[FirstNamed(old)]>>))]_vars

\* C14: inject_prompt on a request whose choice is "auto" ends as it does on
\* the same request without choice, with the same conversation: the text
\* prepended is the rendering of the whole tool list with an unset choice,
\* also when a tool of the list is named "auto".
C14_AutoIsNone ==
    [][(inject_out.status = "pending" /\ inject_out'.status # "pending"
        /\ request.tool_choice.t = "str" /\ request.tool_choice.v = Auto.v)
           => \A old \in {request}, new \in {request'} :
                  LET absent == inject_prompt(call_token_str,
                                    [old EXCEPT !.tool_choice = None], TRUE)
                  IN  /\ inject_out'.exc = absent.exc
                      /\ new.messages = absent.request.messages
                      /\ inject_out'.status = "returned"
                      /\ Injects(old) =>
                             HeadPrepended(old, new,
                                 render_functions_list(None, old.tools.v))]_vars

\* The choice "auto" with a tool named "auto" second in the list: the text
\* of both tools is at the head of the first turn.
C14_Witness ==
    /\ inject_out.status = "returned"
    /\ Injects(request)
    /\ request.tool_choice.t = "str"
    /\ request.tool_choice.v = Auto.v
    /\ Len(request.tools.v) = 2
    /\ request.tools.v[2] = [type |-> "function", name |-> "auto"]
    /\ request.tools.v[1].name = "time"
    /\ request.messages.t = "list"
    /\ Len(request.messages.v) = 2
    /\ request.messages.v[1].content =
           render_functions_list(None, request.tools.v) \o <<"s">>

---------------------------------------------------------------------------
(* Claims about the prompter's construction (specification SpecConstruct). *)

\* C15: when the template renders no usable call token, None or empty, the
\* construction of the prompter returns, and a capture passes every
\* character fed to the visible text, never sets is_function_call, and its
\* finalization raises nothing and adds no call.
C15_UndefinedTokenPassthrough ==
    (prompter.status # "none"
     /\ (IsNone(call_token_str) \/ Len(call_token_str.v) = 0))
        => /\ prompter.status = "constructed"
           /\ ~is_function_call
           /\ visible = SubSeq(text, 1, pos)
           /\ calls_list = <<>>
           /\ out.op = "make_calls_list" => out.exc = "none"

---------------------------------------------------------------------------
(* Claims about two captures (specification SpecTwo).                      *)

\* The last operation was one on the second capture.
OnCapture2(o) == "self" \in DOMAIN o

\* The calls c1 and c2 of the two captures are the payloads each was fed.
OwnCalls(c1, c2) ==
    /\ \A k \in 1..Len(c1) :
           json_dumps(c1[k]) = json_dumps(json_loads(PayloadA).v)
    /\ \A k \in 1..Len(c2) :
           json_dumps(c2[k]) = json_dumps(json_loads(PayloadArgs).v)

\* C16: an operation on one capture (feed, make_calls_list, reset, list
\* conversion) leaves every field of the other capture as it was, in every
\* interleaving, and the call list of each capture holds its own calls only.
C16_CapturesIndependent ==
    [][/\ OnCapture2(out') => UNCHANGED captureVars
       /\ ~OnCapture2(out') => UNCHANGED capture2
       /\ \A c1 \in {calls_list'}, c2 \in {capture2'.calls_list} :
              OwnCalls(c1, c2)]_vars

\* Both captures finalized, each with the call it was fed, the second last.
C16_Witness ==
    /\ OnCapture2(out)
    /\ out.op = "make_calls_list"
    /\ Len(calls_list) = 1
    /\ Len(capture2.calls_list) = 2
    /\ Len(content) > 0
    /\ Len(capture2.content) > 0

---------------------------------------------------------------------------
(* Claims about finalization over several rounds (SpecConvert).            *)

ListConvertOps ==
    {"to_ChatCompletionMessageToolCallList", "to_ChoiceDeltaToolCallList"}

\* C17 as stated: the list a list conversion returns after make_calls_list
\* on an empty buffer is empty, in a fresh capture and after any reset.
C17_EmptyBufferEmptyList ==
    [][(out.op = "make_calls_list" /\ Len(content) = 0
        /\ out'.op \in ListConvertOps)
           => \A o \in {out'} : o.res.kind = "list" => Len(o.res.v) = 0]_vars

\* C17: make_calls_list on an empty buffer raises nothing and leaves the call
\* list as it was; the list conversion that follows returns an empty list
\* when the call list was empty, as in a fresh capture or after reset(True).
C17_EmptyBufferAddsNoCall ==
    [][/\ (out'.op = "make_calls_list" /\ Len(content) = 0)
           => \A before \in {calls_list}, after \in {calls_list'}, o \in {out'} :
                  o.exc = "none" /\ Dumps(after) = Dumps(before)
       /\ (out.op = "make_calls_list" /\ Len(content) = 0
           /\ Len(calls_list) = 0 /\ out'.op \in ListConvertOps)
           => \A o \in {out'} : o.res.kind = "list" /\ Len(o.res.v) = 0]_vars

\* Finalized on the empty buffer left by reset(False), a call in the list.
C17_Witness ==
    /\ out.op = "make_calls_list"
    /\ Len(content) = 0
    /\ fed = 0
    /\ Len(calls_list) = 1

\* C18: every element of the call list is a map with the key `call`, and
\* the conversion of an index inside the list returns its record.
C18_CallListElementsAreCalls ==
    /\ \A k \in 1..Len(calls_list) : IsCall(calls_list[k])
    /\ (out.op = "to_ChatCompletionMessageToolCall" /\ InBounds(out.call_id))
           => out.res.kind = "record"

\* before is a prefix of after: the calls of before are in after at the same
\* indices, with the same content and the same record.
IsPrefix(before, after) ==
    /\ Len(before) <= Len(after)
    /\ \A k \in 1..Len(before) :
           /\ json_dumps(after[k]) = json_dumps(before[k])
           /\ to_ChatCompletionMessageToolCall(after, k - 1)
                  = to_ChatCompletionMessageToolCall(before, k - 1)

\* C19: every operation other than reset(True) leaves the call list it found
\* as a prefix of the call list: a recorded call keeps its index, its content
\* and its record id through later rounds.
C19_AppendOnlyHistory ==
    [][\A o \in {out'} :
           ~(o.op = "reset" /\ o.arg)
               => \A before \in {calls_list}, after \in {calls_list'} :
                      IsPrefix(before, after)]_vars

\* Two calls kept by reset(False).
C19_Witness ==
    /\ out.op = "reset"
    /\ ~out.arg
    /\ Len(calls_list) = 2
    /\ Len(content) = 0

---------------------------------------------------------------------------
(* Claims about the reload of the services (specification SpecServing).    *)

\* C20: while the server serves, after any reload, one that raised
\* included, both serving handles are objects of the same load, and no
\* handler finds a handle deleted.
C20_ReloadAtomicSwap ==
    server.pc = "serving" =>
        /\ server.openai_serving_chat.state = "object"
        /\ server.openai_serving_completion.state = "object"
        /\ server.openai_serving_chat.gen = server.openai_serving_completion.gen
        /\ server.last.op \in {"show_available_models", "create_chat_completion",
                               "create_completion"}
               => server.last.exc = "none"

===========================================================================
